---- MODULE Spec2Model ----
(***************************************************************************)
(* A model of generate_license_statistics.py: the license name normaliser, *)
(* the pattern guesser, the structured extractor, the detector, the cached *)
(* and paced copyright fetch, and main's survey loop.                      *)
(*                                                                         *)
(* Python strings.  A Python string is represented by the pair             *)
(*   [base |-> b, plus |-> n]                                              *)
(* standing for the text b followed by n '+' characters, where b does not  *)
(* end in '+'.  Every string has exactly one such representation, so       *)
(* equality of representations is equality of strings, and                 *)
(* str.rstrip('+') is the map that sets plus to 0.                         *)
(*                                                                         *)
(* Document texts.  A text is a sequence of atoms; an atom is a piece of   *)
(* text written out as a TLA+ string (a phrase a guess rule looks for, a   *)
(* path prefix, a single character, a line break).  The text is the        *)
(* concatenation of its atoms.  A regular expression is a sequence of      *)
(* matchers over atoms and re.search is the search for a position where    *)
(* every matcher matches.                                                  *)
(***************************************************************************)
EXTENDS Integers, Sequences, FiniteSets, Bags, TLC

VARIABLES
    \* SpecFunctions: one call of a pure function
    call,               \* the function called and its argument
    returned,           \* whether the call has returned
    ret,                \* what the call returned or raised
    \* Spec: a run of main
    pc,                 \* where main is
    max_packages,       \* args.max_packages
    package_names,      \* main's package_names
    ai,                 \* index in archive_names of the loop's archive
    ni,                 \* index in package_names of the loop's name
    license_counters,   \* archive -> Counter (a bag of license tokens)
    cache,              \* the beaker cache of fetch_copyright: path -> result
    written,            \* the files written so far, in order
    summary,            \* <<>> or <<the counters dumped to the summary file>>
    last,               \* what the last iteration of the loop fetched and did
    found,              \* history: archive -> bag of the results counted
    processed,          \* history: bag of the <<archive, name>> pairs processed
    \* SpecPacing: calls of fetch_copyright against a clock
    fpc,                \* where fetch_copyright is
    now,                \* time.time(), in milliseconds
    t0,                 \* fetch_copyright's t0
    elapsed,            \* fetch_copyright's elapsed
    padding,            \* fetch_copyright's padding
    paths_cached,       \* the paths the cache holds
    path,               \* the path of the current call
    starts,             \* history: the times at which requests.get was called
    slept,              \* history: time slept by the current call, <<>> if none
    requested           \* history: whether the current call made a request

fvars == <<call, returned, ret>>
mvars == <<pc, max_packages, package_names, ai, ni, license_counters, cache,
           written, summary, last, found, processed>>
pvars == <<fpc, now, t0, elapsed, padding, paths_cached, path, starts, slept, requested>>
vars == <<fvars, mvars, pvars>>

(***************************************************************************)
(* Bounds of the model.                                                    *)
(***************************************************************************)
MaxLines == 2           \* lines of a document text
MaxPlus == 2            \* trailing '+' characters of a license spelling
MaxParagraphs == 2      \* Files paragraphs of a machine-readable document

S(b) == [base |-> b, plus |-> 0]

RECURSIVE SeqToSet(_)
SeqToSet(s) == IF s = <<>> THEN {} ELSE {Head(s)} \cup SeqToSet(Tail(s))

BoundedSeq(A, n) == UNION {[1..k -> A] : k \in 0..n}

(***************************************************************************)
(* known_licenses, lines 69-105.  No key ends in '+'.                      *)
(***************************************************************************)
known_licenses ==
    "Allegro-gift-ware" :> "Allegro" @@
    "Apache-2.0" :> "Apache-2.0" @@
    "Artistic or GPL-1" :> "Artistic" @@
    "Artistic-2.0" :> "Artistic-2" @@
    "BSD" :> "BSD" @@
    "BSD-3-clause" :> "BSD" @@
    "BSD-like" :> "BSD" @@
    "CC-BY-SA-3.0" :> "CC-BY-SA-3" @@
    "CeCILL-C" :> "CeCILL-C" @@
    "EPL" :> "EPL" @@
    "Expat" :> "Expat" @@
    "GNU Lesser GPL v3" :> "LGPL-3" @@
    "GPL-2" :> "GPL-2" @@
    "GPL-2 and LGPL-2.1" :> "LGPL-2" @@
    "GPL-2 and Other" :> "GPL-2" @@
    "GPL-2.0" :> "GPL-2" @@
    "GPL-2+ with OpenSSL exemption" :> "GPL-2" @@
    "GPL-2+ with Autoconf exception" :> "GPL-2" @@
    "GPL-3" :> "GPL-3" @@
    "GPL-3.0" :> "GPL-3" @@
    "GPL2" :> "GPL-2" @@
    "GPL3" :> "GPL-3" @@
    "ISC" :> "ISC" @@
    "LGPL" :> "LGPL" @@
    "LGPL-2" :> "LGPL-2" @@
    "LGPL-2.1" :> "LGPL-2" @@
    "LGPLv2.1" :> "LGPL-2" @@
    "LGPL-3" :> "LGPL-3" @@
    "MIT" :> "MIT" @@
    "MPL-1.1" :> "MPL-1.1" @@
    "PD" :> "PD" @@
    "Public_Domain_1" :> "PD" @@
    "Zlib" :> "Zlib" @@
    "other-BSD" :> "BSD" @@
    "public-domain" :> "PD"

\* Whether a Python string is a key of known_licenses.
IsKnown(s) == s.plus = 0 /\ s.base \in DOMAIN known_licenses

(***************************************************************************)
(* simplify_license_name, lines 174-179.                                   *)
(***************************************************************************)
rstrip_keep(license) == license

rstrip_plus(license) == [license EXCEPT !.plus = 0]

simplify_license_name(license) ==
    LET stripped == rstrip_plus(license)
    IN  IF IsKnown(stripped) THEN S(known_licenses[stripped.base]) ELSE stripped

(***************************************************************************)
(* The atoms of document texts.                                            *)
(***************************************************************************)
HTML404 == "<!DOCTYPE HTML PUBLIC \"-//IETF//DTD HTML 2.0//EN\">"
NL == "\n"
LicenseField == "License: "
CL_GPL == "/usr/share/common-licenses/GPL"
CL_LGPL == "/usr/share/common-licenses/LGPL"
CL_BSD == "/usr/share/common-licenses/BSD"
CL_Artistic == "/usr/share/common-licenses/Artistic"
CL_Apache2 == "/usr/share/common-licenses/Apache-2"
GPL_by == "GNU General Public License as published by"
GPL_v2 == "the Free Software Foundation; either version 2"

Chars == {"-", "2", "3", ".", "0", " ", NL}

Phrases == {
    "Creative Commons Attribution-ShareAlike",
    "LaTeX Project Public License",
    "Permission is hereby granted, free of charge, to any person obtaining a copy",
    "under the \"Artistic\" license",
    "may be used to endorse or promote products",
    "from the Public Domain or from",
    "modifications in the Public Domain or otherwise",
    "GNU Free Documentation License",
    "under the terms of the GPL",
    "9menu is free software",
    "Allegro is gift-ware",
    "Ruby's License",
    "QoSient Public License",
    GPL_by, GPL_v2 }

Atoms == Chars \cup Phrases \cup
    {HTML404, LicenseField, "GPL-2+", CL_GPL, CL_LGPL, CL_BSD, CL_Artistic, CL_Apache2}

\* The lines texts are made of: each phrase alone, the paths of the common
\* licenses with what may follow them on the line, lines on which two rules
\* match, the 404 marker, 'License: ' lines, the empty line.
Lines ==
    {<<p>> : p \in Phrases} \cup
    {<<c>> \o tail : c \in {CL_GPL, CL_LGPL},
                     tail \in {<<>>, <<"-">>, <<".">>, <<"-", "2">>, <<"-", "3">>}} \cup
    {<<CL_Apache2>> \o tail : tail \in {<<".", "0">>, <<"-", "0">>, <<"0">>, <<".">>}} \cup
    {<<>>, <<HTML404>>, <<CL_BSD>>, <<CL_Artistic>>,
     <<GPL_by, " ", GPL_v2>>,
     <<CL_GPL, " ", CL_Artistic>>,
     <<"may be used to endorse or promote products", " ", "GNU Free Documentation License">>,
     <<LicenseField>>, <<LicenseField, "GPL-2+">>,
     <<LicenseField, "under the terms of the GPL">>}

\* '\n'.join(lines).
RECURSIVE JoinLines(_)
JoinLines(ls) ==
    IF ls = <<>> THEN <<>>
    ELSE IF Len(ls) = 1 THEN ls[1]
    ELSE ls[1] \o <<NL>> \o JoinLines(Tail(ls))

\* The texts of at most n lines.
Texts(n) == {JoinLines(ls) : ls \in BoundedSeq(Lines, n)}

(***************************************************************************)
(* Regular expressions over atoms.  Lit(a) matches the atom a; NotCh(c) is *)
(* the class [^c], which matches one character other than c and so the     *)
(* first character of the next atom (no atom of more than one character    *)
(* begins with '3' or '-', the only characters the rules exclude); AnyCh   *)
(* is '.', one character other than a line break, and is followed in its   *)
(* rule by a literal, so it matches an atom of exactly one character.      *)
(***************************************************************************)
Lit(a) == [k |-> "lit", a |-> a]
NotCh(c) == [k |-> "not", a |-> c]
AnyCh == [k |-> "any", a |-> NL]

MatchAtom(m, atom) ==
    CASE m.k = "lit" -> atom = m.a
      [] m.k = "not" -> atom # m.a
      [] m.k = "any" -> atom \in Chars /\ atom # NL

MatchAt(regex, text, i) ==
    /\ i + Len(regex) - 1 <= Len(text)
    /\ \A j \in 1..Len(regex) : MatchAtom(regex[j], text[i + j - 1])

re_search(regex, text) == \E i \in 1..Len(text) : MatchAt(regex, text, i)

(***************************************************************************)
(* guessers, lines 38-67, in the order of the source.                      *)
(***************************************************************************)
guessers == <<
    << <<Lit("Creative Commons Attribution-ShareAlike")>>, "CC" >>,
    << <<Lit(CL_BSD)>>, "BSD" >>,
    << <<Lit("LaTeX Project Public License")>>, "LPPL" >>,
    << <<Lit("Permission is hereby granted, free of charge, to any person obtaining a copy")>>, "MIT" >>,
    << <<Lit("under the \"Artistic\" license")>>, "Artistic" >>,
    << <<Lit(CL_Apache2), AnyCh, Lit("0")>>, "Apache-2.0" >>,
    << <<Lit(CL_BSD)>>, "BSD" >>,
    << <<Lit(GPL_by), Lit(NL), Lit(GPL_v2)>>, "GPL-2" >>,
    << <<Lit("may be used to endorse or promote products")>>, "BSD" >>,
    << <<Lit(CL_GPL), Lit("-"), Lit("3")>>, "GPL-3" >>,
    << <<Lit(CL_GPL), Lit("-"), NotCh("3")>>, "GPL-2" >>,
    << <<Lit(CL_GPL), NotCh("-")>>, "GPL-2" >>,
    << <<Lit(CL_LGPL), Lit("-"), Lit("3")>>, "LGPL-3" >>,
    << <<Lit(CL_LGPL), Lit("-"), NotCh("3")>>, "LGPL-2" >>,
    << <<Lit(CL_LGPL), NotCh("-")>>, "LGPL-2" >>,
    << <<Lit(CL_Artistic)>>, "Artistic" >>,
    << <<Lit("from the Public Domain or from")>>, "Artistic" >>,
    << <<Lit("modifications in the Public Domain or otherwise")>>, "Artistic" >>,
    << <<Lit("GNU Free Documentation License")>>, "GFDL" >>,
    << <<Lit("under the terms of the GPL")>>, "GPL-2" >>,
    << <<Lit("9menu is free software")>>, "other" >>,
    << <<Lit("Allegro is gift-ware")>>, "other" >>,
    << <<Lit("Ruby's License")>>, "other" >>,
    << <<Lit("QoSient Public License")>>, "other" >> >>

(***************************************************************************)
(* What a function call produces: a value, or an exception.                *)
(***************************************************************************)
Returns(v) == [exc |-> "none", val |-> v]
Raises(e) == [exc |-> e, val |-> {}]

(***************************************************************************)
(* guess_licenses, lines 182-224.                                          *)
(***************************************************************************)
startswith(text, atom) == text # <<>> /\ text[1] = atom

\* str.splitlines: the lines of the text, the line breaks removed.
RECURSIVE splitlines(_)
splitlines(text) ==
    IF text = <<>> THEN <<>>
    ELSE LET breaks == {i \in 1..Len(text) : text[i] = NL}
         IN  IF breaks = {} THEN <<text>>
             ELSE LET i == CHOOSE b \in breaks : \A c \in breaks : b <= c
                  IN  <<SubSeq(text, 1, i - 1)>> \o splitlines(SubSeq(text, i + 1, Len(text)))

\* The last blank-separated word of a phrase.
PhraseTail ==
    "Creative Commons Attribution-ShareAlike" :> "Attribution-ShareAlike" @@
    "LaTeX Project Public License" :> "License" @@
    "Permission is hereby granted, free of charge, to any person obtaining a copy" :> "copy" @@
    "under the \"Artistic\" license" :> "license" @@
    "may be used to endorse or promote products" :> "products" @@
    "from the Public Domain or from" :> "from" @@
    "modifications in the Public Domain or otherwise" :> "otherwise" @@
    "GNU Free Documentation License" :> "License" @@
    "under the terms of the GPL" :> "GPL" @@
    "9menu is free software" :> "software" @@
    "Allegro is gift-ware" :> "gift-ware" @@
    "Ruby's License" :> "License" @@
    "QoSient Public License" :> "License" @@
    GPL_by :> "by" @@
    GPL_v2 :> "2" @@
    HTML404 :> "2.0//EN\">" @@
    LicenseField :> "License:"

\* line.strip().split()[-1] of a line that ends with the atom: the last word
\* of the line.  Atoms that abut are not joined into one word; the result of
\* guess_licenses never reads the value.
LastWord(line) ==
    LET atom == line[Len(line)]
    IN  CASE atom = "GPL-2+" -> [base |-> "GPL-2", plus |-> 1]
          [] atom \in DOMAIN PhraseTail -> S(PhraseTail[atom])
          [] OTHER -> S(atom)

\* Lines 186-190: the local variable license after the loop over the lines;
\* <<>> when no line starts with 'License: ', else <<the last one's word>>.
scanned_license(text) ==
    LET lines == splitlines(text)
        decl == {i \in 1..Len(lines) : startswith(lines[i], LicenseField)}
    IN  IF decl = {} THEN <<>>
        ELSE LET i == CHOOSE d \in decl : \A e \in decl : e <= d
             IN  <<simplify_license_name(LastWord(lines[i]))>>

\* Lines 192-194: the set of the tokens of the rules that match.
guessed_set(rules, text) ==
    {S(rules[r][2]) : r \in {q \in DOMAIN rules : re_search(rules[q][1], text)}}

\* Lines 196-224.  A returned list (['Perl'], ['unknown']) has one element and
\* is represented, like a returned set, by the set of its members.
guess_with(rules, text) ==
    IF startswith(text, HTML404) THEN Raises("PackageNotFound")
    ELSE LET license == scanned_license(text)
             guessed == guessed_set(rules, text)
         IN  IF Cardinality(guessed) > 1
             THEN IF guessed = {S("Artistic"), S("GPL-2")}
                  THEN Returns({S("Perl")})
                  ELSE Returns(guessed)
             ELSE IF guessed # {} THEN Returns(guessed)
             ELSE Returns({S("unknown")})

\* The other revision's behaviour: a scanned 'License: ' line decides.
guess_licenses_declared(text) ==
    IF startswith(text, HTML404) THEN Raises("PackageNotFound")
    ELSE IF scanned_license(text) # <<>> THEN Returns({scanned_license(text)[1]})
    ELSE guess_with(guessers, text)

guess_licenses(text) == guess_with(guessers, text)

(***************************************************************************)
(* extract_licenses, lines 227-254.  A document is its text together with  *)
(* what debian.copyright.Copyright makes of it: parse.err is "none" and    *)
(* parse.paragraphs the Files paragraphs, or parse.err names the exception *)
(* the parser raises.  A paragraph is [files, license]: the globs of its   *)
(* Files field, and <<>> or <<synopsis>> for its License field.            *)
(***************************************************************************)
Extracted(origin, licenses) == [exc |-> "none", origin |-> origin, licenses |-> licenses]
ExtractRaises(e) == [exc |-> e, origin |-> "", licenses |-> {}]

Copyright(doc) == doc.parse

\* Lines 233-235: {fp.files[0]: fp.license.synopsis for fp in ... if fp.license};
\* a later paragraph replaces an earlier one under the same key.
files_selectors(paragraphs) ==
    LET licensed == {i \in 1..Len(paragraphs) : paragraphs[i].license # <<>>}
        keys == {paragraphs[i].files[1] : i \in licensed}
    IN  [k \in keys |->
            LET i == CHOOSE j \in licensed :
                        /\ paragraphs[j].files[1] = k
                        /\ \A h \in licensed : paragraphs[h].files[1] = k => h <= j
            IN  paragraphs[i].license[1]]

\* fp.files[0] of a licensed paragraph with an empty Files field: IndexError.
files_index_error(paragraphs) ==
    \E i \in 1..Len(paragraphs) :
        paragraphs[i].license # <<>> /\ paragraphs[i].files = <<>>

\* Line 238: files_selectors.pop(u'debian/*', None).
pop(d, key) == [k \in DOMAIN d \ {key} |-> d[k]]

\* Lines 249 and 254: 'guessed' with what guess_licenses returns; an exception
\* of guess_licenses is raised inside the handler and leaves extract_licenses.
guessed_fallback(text) ==
    LET g == guess_licenses(text)
    IN  IF g.exc # "none" THEN ExtractRaises(g.exc) ELSE Extracted("guessed", g.val)

\* Lines 248-249.
except_NotMachineReadableError(text) == guessed_fallback(text)

\* Lines 251-254 (the log.error call writes to the console only).
except_propagate(pkg_name, text) == ExtractRaises("Exception")

except_Exception(pkg_name, text) == guessed_fallback(text)

extract_licenses(pkg_name, doc) ==
    LET c == Copyright(doc)
    IN  IF c.err = "NotMachineReadableError" THEN except_NotMachineReadableError(doc.text)
        ELSE IF c.err # "none" THEN except_Exception(pkg_name, doc.text)
        ELSE IF files_index_error(c.paragraphs) THEN except_Exception(pkg_name, doc.text)
        ELSE LET selectors == pop(files_selectors(c.paragraphs), "debian/*")
             IN  IF DOMAIN selectors = {}
                 THEN Extracted("parsed", {S("missing")})
                 ELSE Extracted("parsed",
                        {simplify_license_name(selectors[k]) : k \in DOMAIN selectors})

(***************************************************************************)
(* The inputs of the functions.                                            *)
(***************************************************************************)
Spellings ==
    {[base |-> b, plus |-> n] :
        b \in DOMAIN known_licenses \cup {"", "FooBar", "GPL-2+ with", "Perl"},
        n \in 0..MaxPlus}

FileLists == {<<>>, <<"*">>, <<"debian/*">>, <<"src/*">>,
              <<"debian/*", "src/*">>, <<"src/*", "debian/*">>}

Synopses == {S("MIT"), [base |-> "GPL-3", plus |-> 1], S("GPL3"), S("FooBar")}

Paragraphs ==
    {[files |-> f, license |-> l] :
        f \in FileLists, l \in {<<>>} \cup {<<s>> : s \in Synopses}}

Parsed(paragraphs) == [err |-> "none", paragraphs |-> paragraphs]
ParseError(e) == [err |-> e, paragraphs |-> <<>>]

\* Texts that go with the documents that parse.
SampleTexts == {<<HTML404>>, <<CL_GPL, " ", CL_Artistic>>}

\* Documents that parse, of at most n paragraphs.
ParsedDocuments(n) ==
    {[text |-> t, parse |-> Parsed(ps)] :
        t \in SampleTexts, ps \in BoundedSeq(Paragraphs, n)}

\* Documents on which the parser raises, their texts of at most n lines.
UnparsedDocuments(n) ==
    {[text |-> t, parse |-> ParseError(e)] :
        t \in Texts(n), e \in {"NotMachineReadableError", "ValueError"}}

(***************************************************************************)
(* The package list, lines 141-143 and 298-303.  A package name is the     *)
(* sequence of its character codes, and names compare as Python strings    *)
(* do.                                                                     *)
(***************************************************************************)
MaxResp == 2            \* records in the package-list response
MaxPackagesArg == 2     \* largest --max-packages given

PkgNames == {<<97, 98>>, <<98>>}

\* The responses of the package-list service of at most n records.
PackageListResponses(n) ==
    {[result |-> rs] : rs \in BoundedSeq({[package |-> x] : x \in PkgNames}, n)}

RECURSIVE StrLess(_, _)
StrLess(a, b) ==
    IF a = <<>> THEN b # <<>>
    ELSE IF b = <<>> THEN FALSE
    ELSE IF Head(a) # Head(b) THEN Head(a) < Head(b)
    ELSE StrLess(Tail(a), Tail(b))

StrLessEq(a, b) == a = b \/ StrLess(a, b)

\* sorted(): the elements in ascending order, each as often as it occurs.
RECURSIVE sorted(_)
sorted(xs) ==
    IF xs = <<>> THEN <<>>
    ELSE LET i == CHOOSE j \in 1..Len(xs) : \A h \in 1..Len(xs) : StrLessEq(xs[j], xs[h])
         IN  <<xs[i]>> \o sorted(SubSeq(xs, 1, i - 1) \o SubSeq(xs, i + 1, Len(xs)))

\* Line 143: sorted(p['package'] for p in r['result']).
fetch_last_package_list(r) ==
    sorted([i \in 1..Len(r.result) |-> r.result[i].package])

\* random.random() after random.seed(12345), line 301, in thousandths: the
\* first values of CPython's generator for that seed.
RandomMilli == <<416, 10, 825, 298, 368, 193>>

\* random.shuffle, line 302: for i from len-1 down to 1 (counting from 0),
\* j = int(random() * (i + 1)) and x[i], x[j] are exchanged.  k counts the
\* values drawn.
RECURSIVE shuffle_from(_, _, _)
shuffle_from(x, i, k) ==
    IF i < 1 THEN x
    ELSE LET j == (RandomMilli[k] * (i + 1)) \div 1000
             y == [x EXCEPT ![i + 1] = x[j + 1], ![j + 1] = x[i + 1]]
         IN  shuffle_from(y, i - 1, k + 1)

shuffle(x) == shuffle_from(x, Len(x) - 1, 1)

\* Line 303: package_names[:max_packages], max_packages >= 0.
take(x, n) == SubSeq(x, 1, IF n < Len(x) THEN n ELSE Len(x))

(***************************************************************************)
(* fetch_copyright as main sees it, lines 156-171 (its clock and sleep are *)
(* the subject of SpecPacing below): the cached result for a path the      *)
(* cache holds; else what the server serves, stored in the cache unless    *)
(* requests.get raises.  A result is <<>> for None and <<doc>> for a text. *)
(***************************************************************************)
archive_names == <<"oldstable", "stable", "unstable">>

Ok(doc) == [http |-> "ok", doc |-> <<doc>>]
NotOk == [http |-> "not ok", doc |-> <<>>]
NoResponse == [http |-> "raise", doc |-> <<>>]

NotMachineReadable == ParseError("NotMachineReadableError")

\* What the server may serve for a path in a run of the survey: a 404 page
\* with a non-OK status, no response at all, and with status OK a 404 page,
\* a text that opens with the 404 marker and yet parses, a free text that
\* the guesser resolves to Perl, and a machine-readable document with two
\* upstream licenses.
Served == {NotOk, NoResponse,
    Ok([text |-> <<HTML404>>, parse |-> NotMachineReadable]),
    Ok([text |-> <<HTML404>>,
        parse |-> Parsed(<<[files |-> <<"*">>, license |-> <<S("MIT")>>]>>)]),
    Ok([text |-> <<CL_GPL, " ", CL_Artistic>>, parse |-> NotMachineReadable]),
    Ok([text |-> <<>>,
        parse |-> Parsed(<<[files |-> <<"src/*">>, license |-> <<S("MIT")>>],
                           [files |-> <<"*">>, license |-> <<[base |-> "GPL-3", plus |-> 1]>>],
                           [files |-> <<"debian/*">>, license |-> <<S("GPL-2")>>]>>)]) }

Fetched(exc, val, c) == [exc |-> exc, val |-> val, cache |-> c]

fetch_copyright(c, served, p) ==
    IF p \in DOMAIN c THEN Fetched("none", c[p], c)
    ELSE IF served.http = "raise" THEN Fetched("ConnectionError", <<>>, c)
    ELSE LET r == IF served.http = "ok" THEN served.doc ELSE <<>>
         IN  Fetched("none", r, c @@ (p :> r))

(***************************************************************************)
(* detect_licenses, lines 257-266.                                         *)
(***************************************************************************)
copyright_path(archive, name) == <<name[1], name, archive>>

Detected(exc, text, licenses, c) ==
    [exc |-> exc, text |-> text, licenses |-> licenses, cache |-> c]

detect_licenses(c, served, archive, name) ==
    LET f == fetch_copyright(c, served, copyright_path(archive, name))
    IN  IF f.exc # "none" THEN Detected(f.exc, <<>>, {}, f.cache)
        ELSE IF f.val = <<>> THEN Detected("PackageNotFound", <<>>, {}, f.cache)
        ELSE LET e == extract_licenses(name, f.val[1])
             IN  Detected(e.exc, f.val, e.licenses, f.cache)

(***************************************************************************)
(* main, lines 292-334.                                                    *)
(***************************************************************************)
\* Counter.update(iterable): one more of each element.
Counter_update_one(counter, licenses) ==
    IF licenses = {} THEN counter
    ELSE LET t == CHOOSE x \in licenses : TRUE
         IN  [x \in DOMAIN counter \cup {t} |->
                (IF x \in DOMAIN counter THEN counter[x] ELSE 0) + (IF x = t THEN 1 ELSE 0)]

Counter_update(counter, licenses) ==
    [t \in DOMAIN counter \cup licenses |->
        (IF t \in DOMAIN counter THEN counter[t] ELSE 0) + (IF t \in licenses THEN 1 ELSE 0)]

\* Lines 305-306: the loops are over when every archive has been gone through.
loops_done_early(i) == i >= Len(archive_names)

loops_done(i) == i > Len(archive_names)

NoPair == [fetched |-> FALSE, archive |-> "", name |-> <<>>, text |-> <<>>,
           exc |-> "none", counted |-> {}]

MInit ==
    /\ pc = "fetch_list"
    /\ max_packages \in 0..MaxPackagesArg
    /\ package_names = <<>>
    /\ ai = 1 /\ ni = 1
    /\ license_counters = [a \in SeqToSet(archive_names) |-> <<>>]
    /\ cache = <<>>
    /\ written = <<>>
    /\ summary = <<>>
    /\ last = NoPair
    /\ found = [a \in SeqToSet(archive_names) |-> <<>>]
    /\ processed = <<>>

\* Line 298.
FetchPackageList ==
    /\ pc = "fetch_list"
    /\ \E r \in PackageListResponses(MaxResp) : package_names' = fetch_last_package_list(r)
    /\ pc' = "shuffle"
    /\ UNCHANGED <<max_packages, ai, ni, license_counters, cache, written, summary,
                   last, found, processed>>

\* Lines 301-303.
SamplePackages ==
    /\ pc = "shuffle"
    /\ package_names' = take(shuffle(package_names), max_packages)
    /\ pc' = "loop"
    /\ UNCHANGED <<max_packages, ai, ni, license_counters, cache, written, summary,
                   last, found, processed>>

\* Lines 305-312: one iteration of the inner loop.  Only PackageNotFound is
\* caught; any other exception leaves main.
SurveyPair ==
    /\ pc = "loop"
    /\ ~loops_done(ai)
    /\ ni <= Len(package_names)
    /\ LET archive == archive_names[ai]
           name == package_names[ni]
       IN  \E served \in Served :
             LET d == detect_licenses(cache, served, archive, name)
                 counted == IF d.exc = "none" THEN d.licenses ELSE {}
             IN  /\ cache' = d.cache
                 /\ last' = [fetched |-> TRUE, archive |-> archive, name |-> name,
                             text |-> d.text, exc |-> d.exc, counted |-> counted]
                 /\ processed' = processed (+) SetToBag({<<archive, name>>})
                 /\ IF d.exc = "none"
                    THEN /\ license_counters' =
                              [license_counters EXCEPT
                                 ![archive] = Counter_update(@, d.licenses)]
                         /\ found' = [found EXCEPT ![archive] = @ (+) SetToBag({d.licenses})]
                         /\ pc' = "loop" /\ ni' = ni + 1
                    ELSE /\ UNCHANGED <<license_counters, found>>
                         /\ IF d.exc = "PackageNotFound"
                            THEN pc' = "loop" /\ ni' = ni + 1
                            ELSE pc' = "aborted" /\ ni' = ni
    /\ UNCHANGED <<max_packages, package_names, ai, written, summary>>

\* Line 305: the inner loop is exhausted, the outer loop takes the next archive.
NextArchive ==
    /\ pc = "loop"
    /\ ~loops_done(ai)
    /\ ni > Len(package_names)
    /\ ai' = ai + 1 /\ ni' = 1
    /\ UNCHANGED <<pc, max_packages, package_names, license_counters, cache, written,
                   summary, last, found, processed>>

\* Lines 314-319: the loops are over; the counters are printed and dumped.
WriteSummary ==
    /\ pc = "loop"
    /\ loops_done(ai)
    /\ summary' = <<license_counters>>
    /\ written' = Append(written, "summary.json")
    /\ pc' = "plot_all"
    /\ UNCHANGED <<max_packages, package_names, ai, ni, license_counters, cache, last,
                   found, processed>>

\* Lines 321-326.
PlotAll ==
    /\ pc = "plot_all"
    /\ written' = Append(written, "all.png")
    /\ pc' = "plot_delta"
    /\ UNCHANGED <<max_packages, package_names, ai, ni, license_counters, cache, summary,
                   last, found, processed>>

\* Lines 328-334.
PlotDelta ==
    /\ pc = "plot_delta"
    /\ written' = Append(written, "delta.png")
    /\ pc' = "done"
    /\ UNCHANGED <<max_packages, package_names, ai, ni, license_counters, cache, summary,
                   last, found, processed>>

(***************************************************************************)
(* fetch_copyright against the clock, lines 156-171.  Times are in         *)
(* milliseconds.  time.time() is taken not to run backwards and            *)
(* time.sleep(d) to return after d or more.                                *)
(***************************************************************************)
MAX_QPS == 20

PacedPaths == {"a/ab/oldstable_copyright", "a/ab/stable_copyright", "b/b/stable_copyright"}
RequestTimes == {0, 20, 50, 80}     \* how long requests.get may take
Oversleep == {0, 5}                 \* how much longer than asked time.sleep may take
WorkTimes == {0, 15}                \* time main spends between two calls

\* Line 163 with Python 2 integer division: 1/MAX_QPS is 0.
padding_int_division(e) == (1 \div MAX_QPS) * 1000 - e

\* Line 163: padding = 1.0/MAX_QPS - elapsed.
padding_of(e) == 1000 \div MAX_QPS - e

PInit ==
    /\ fpc = "idle"
    /\ now = 0 /\ t0 = 0 /\ elapsed = 0 /\ padding = 0
    /\ paths_cached \in SUBSET PacedPaths
    /\ path = ""
    /\ starts = <<>>
    /\ slept = <<>>
    /\ requested = FALSE

\* The decorator of line 156 answers from the cache: the body does not run.
FetchCached ==
    /\ fpc = "idle"
    /\ \E p \in paths_cached : path' = p
    /\ requested' = FALSE
    /\ slept' = <<>>
    /\ UNCHANGED <<fpc, now, t0, elapsed, padding, paths_cached, starts>>

\* Lines 158-161, after main has worked for w: t0 is read and the request sent.
FetchLive ==
    /\ fpc = "idle"
    /\ \E p \in PacedPaths \ paths_cached, w \in WorkTimes :
         /\ path' = p
         /\ now' = now + w
         /\ t0' = now + w
         /\ starts' = Append(starts, now + w)
    /\ requested' = TRUE
    /\ slept' = <<>>
    /\ fpc' = "request"
    /\ UNCHANGED <<elapsed, padding, paths_cached>>

\* Lines 161-163: requests.get returns a response after e.
RequestReturns ==
    /\ fpc = "request"
    /\ \E e \in RequestTimes :
         /\ now' = now + e
         /\ elapsed' = now + e - t0
         /\ padding' = padding_of(now + e - t0)
    /\ fpc' = "pad"
    /\ UNCHANGED <<t0, paths_cached, path, starts, slept, requested>>

\* Line 161: requests.get raises; the exception leaves fetch_copyright and,
\* not being PackageNotFound, main.
RequestRaises ==
    /\ fpc = "request"
    /\ fpc' = "raised"
    /\ UNCHANGED <<now, t0, elapsed, padding, paths_cached, path, starts, slept, requested>>

\* Lines 164-165.
Pad ==
    /\ fpc = "pad"
    /\ IF padding >= 0
       THEN \E o \in Oversleep : now' = now + padding + o /\ slept' = <<padding>>
       ELSE UNCHANGED <<now, slept>>
    /\ fpc' = "return"
    /\ UNCHANGED <<t0, elapsed, padding, paths_cached, path, starts, requested>>

\* Lines 167-171: the text or None is returned, and the decorator stores it.
FetchReturns ==
    /\ fpc = "return"
    /\ paths_cached' = paths_cached \cup {path}
    /\ fpc' = "idle"
    /\ UNCHANGED <<now, t0, elapsed, padding, path, starts, slept, requested>>

(***************************************************************************)
(* The three specifications.  Each leaves the variables of the other two   *)
(* at rest.                                                                *)
(***************************************************************************)
FRest == call = [fn |-> "none"] /\ returned = FALSE /\ ret = Raises("none")

MRest ==
    /\ pc = "rest" /\ max_packages = 0 /\ package_names = <<>> /\ ai = 1 /\ ni = 1
    /\ license_counters = <<>> /\ cache = <<>> /\ written = <<>> /\ summary = <<>>
    /\ last = NoPair /\ found = <<>> /\ processed = <<>>

PRest ==
    /\ fpc = "rest" /\ now = 0 /\ t0 = 0 /\ elapsed = 0 /\ padding = 0
    /\ paths_cached = {} /\ path = "" /\ starts = <<>> /\ slept = <<>>
    /\ requested = FALSE

\* SpecFunctions: one call of one of the three functions on an input.
FInit ==
    /\ returned = FALSE
    /\ ret = Raises("none")
    /\ \/ call \in {[fn |-> "simplify_license_name", arg |-> s] : s \in Spellings}
       \/ call \in {[fn |-> "guess_licenses", arg |-> t] : t \in Texts(MaxLines)}
       \/ call \in {[fn |-> "extract_licenses", arg |-> d] : d \in ParsedDocuments(MaxParagraphs)}
       \/ call \in {[fn |-> "extract_licenses", arg |-> d] :
                        d \in UnparsedDocuments(MaxLines - 1)}
    /\ MRest /\ PRest

CallSimplify ==
    /\ ~returned /\ call.fn = "simplify_license_name"
    /\ ret' = Returns(simplify_license_name(call.arg))
    /\ returned' = TRUE
    /\ UNCHANGED <<call, mvars, pvars>>

CallGuess ==
    /\ ~returned /\ call.fn = "guess_licenses"
    /\ ret' = guess_licenses(call.arg)
    /\ returned' = TRUE
    /\ UNCHANGED <<call, mvars, pvars>>

CallExtract ==
    /\ ~returned /\ call.fn = "extract_licenses"
    /\ ret' = extract_licenses("pkg", call.arg)
    /\ returned' = TRUE
    /\ UNCHANGED <<call, mvars, pvars>>

FNext == CallSimplify \/ CallGuess \/ CallExtract

SpecFunctions == FInit /\ [][FNext]_vars

\* Spec: a run of main.
Init == MInit /\ FRest /\ PRest

Next ==
    \/ FetchPackageList /\ UNCHANGED <<fvars, pvars>>
    \/ SamplePackages /\ UNCHANGED <<fvars, pvars>>
    \/ SurveyPair /\ UNCHANGED <<fvars, pvars>>
    \/ NextArchive /\ UNCHANGED <<fvars, pvars>>
    \/ WriteSummary /\ UNCHANGED <<fvars, pvars>>
    \/ PlotAll /\ UNCHANGED <<fvars, pvars>>
    \/ PlotDelta /\ UNCHANGED <<fvars, pvars>>

Spec == Init /\ [][Next]_vars

\* SpecPacing: calls of fetch_copyright against the clock.
PacingInit == PInit /\ FRest /\ MRest

PacingNext ==
    \/ FetchCached /\ UNCHANGED <<fvars, mvars>>
    \/ FetchLive /\ UNCHANGED <<fvars, mvars>>
    \/ RequestReturns /\ UNCHANGED <<fvars, mvars>>
    \/ RequestRaises /\ UNCHANGED <<fvars, mvars>>
    \/ Pad /\ UNCHANGED <<fvars, mvars>>
    \/ FetchReturns /\ UNCHANGED <<fvars, mvars>>

SpecPacing == PacingInit /\ [][PacingNext]_vars

(***************************************************************************)
(* The claims.                                                             *)
(***************************************************************************)
RECURSIVE SumCopies(_, _)
SumCopies(elems, bag) ==
    IF elems = {} THEN 0
    ELSE LET e == CHOOSE x \in elems : TRUE
         IN  CopiesIn(e, bag) + SumCopies(elems \ {e}, bag)

IsSorted(xs) == \A i \in 1..Len(xs) - 1 : StrLessEq(xs[i], xs[i + 1])
NoDuplicate(xs) == \A i, j \in 1..Len(xs) : xs[i] = xs[j] => i = j

\* C1 (as claimed): whatever fetching, parsing or guessing a pair's document
\* comes to, the failure stays with that pair: the loop goes on and reaches
\* the summary; no pair's failure ends the survey.
C1_NoPairFailureEndsTheSurvey == pc # "aborted"

\* The pair last surveyed had no document: fetch_copyright returned None, or
\* the text fetched begins with the HTML-404 marker.
LastPairAbsent ==
    /\ last.fetched
    /\ \/ last.text = <<>> /\ last.exc # "ConnectionError"
       \/ last.text # <<>> /\ startswith(last.text[1].text, HTML404)

\* C2 (as claimed): for a pair whose document is absent, detect_licenses raises
\* PackageNotFound and returns no license token, and the pair adds nothing to
\* any counter.
C2_AbsentPairIsSkipped ==
    LastPairAbsent => last.exc = "PackageNotFound" /\ last.counted = {}

\* The tokens of the rules that match the text of the call.
MatchedTokens ==
    {S(guessers[r][2]) :
        r \in {q \in DOMAIN guessers : re_search(guessers[q][1], call.arg)}}

Reversed(xs) == [i \in 1..Len(xs) |-> xs[Len(xs) + 1 - i]]

\* C3: for a text that does not begin with the HTML-404 marker, guess_licenses
\* returns 'unknown' when no rule matches, 'Perl' when the matched tokens are
\* exactly Artistic and GPL-2, and otherwise exactly the matched tokens; the
\* rules taken in the opposite order give the same result, and no scanned
\* 'License: ' line enters it.
C3_GuessIsAFunctionOfTheMatchedSet ==
    (returned /\ call.fn = "guess_licenses" /\ ~startswith(call.arg, HTML404)) =>
        LET M == MatchedTokens
            expected == IF M = {} THEN {S("unknown")}
                        ELSE IF M = {S("Artistic"), S("GPL-2")} THEN {S("Perl")}
                        ELSE M
        IN  /\ ret = Returns(expected)
            /\ guess_with(Reversed(guessers), call.arg) = ret

\* C3's case: a text with a scanned 'License: ' line whose rules match
\* Artistic and GPL-2, resolved to Perl.
C3_Witness ==
    /\ returned /\ call.fn = "guess_licenses"
    /\ scanned_license(call.arg) # <<>>
    /\ MatchedTokens = {S("Artistic"), S("GPL-2")}
    /\ ret.val = {S("Perl")}

\* The document of the call went through the try block of extract_licenses
\* without an exception.
CallParsed ==
    /\ returned /\ call.fn = "extract_licenses"
    /\ call.arg.parse.err = "none"
    /\ \A i \in 1..Len(call.arg.parse.paragraphs) :
          call.arg.parse.paragraphs[i].license # <<>> =>
              call.arg.parse.paragraphs[i].files # <<>>

\* C4 (as claimed): a document that parses yields origin 'parsed', and
\* 'missing' when no paragraph other than 'debian/*' declares a license, else
\* exactly the simplified synopses of all the paragraphs that declare a license
\* and whose selector is not 'debian/*': none of them is lost.
C4_EveryUpstreamParagraphCounted ==
    CallParsed =>
        LET ps == call.arg.parse.paragraphs
            upstream == {i \in 1..Len(ps) :
                            ps[i].license # <<>> /\ ps[i].files[1] # "debian/*"}
        IN  /\ ret.exc = "none" /\ ret.origin = "parsed"
            /\ ret.licenses = IF upstream = {} THEN {S("missing")}
                              ELSE {simplify_license_name(ps[i].license[1]) : i \in upstream}

C7_RequestsAreSpaced ==
    /\ \A i \in 2..Len(starts) : starts[i] - starts[i - 1] >= 1000 \div MAX_QPS
    /\ (fpc = "return" /\ elapsed <= 1000 \div MAX_QPS) =>
            slept = <<1000 \div MAX_QPS - elapsed>>
    /\ (fpc = "return" /\ elapsed > 1000 \div MAX_QPS) => slept = <<>>
    /\ ~requested => slept = <<>> /\ fpc \in {"idle", "rest"}

\* C7's case: a request that took 20 ms, the sleep of 30 ms, and the next
\* request sent exactly 50 ms after the first.
C7_Witness ==
    /\ Len(starts) >= 2
    /\ starts[2] - starts[1] = 1000 \div MAX_QPS
    /\ fpc = "return" /\ elapsed = 20 /\ slept = <<30>>

\* Every pair of the sample has been surveyed in each of the three archives.
AllPairsProcessed ==
    \A a \in SeqToSet(archive_names), n \in SeqToSet(package_names) :
        CopiesIn(<<a, n>>, processed) >= 1

\* C8: the summary and the two charts are written, in that order, only after
\* every pair of the sample has been processed in all three archives; nothing
\* is written while the loop runs, and a run that stops in the loop writes
\* nothing.
C8_ArtifactsOnlyAfterTheSurvey ==
    /\ pc \in {"fetch_list", "shuffle", "loop", "aborted"} =>
            written = <<>> /\ summary = <<>>
    /\ written # <<>> =>
            /\ AllPairsProcessed
            /\ \E k \in 1..3 : written = SubSeq(<<"summary.json", "all.png", "delta.png">>, 1, k)
            /\ summary = <<license_counters>>

\* C8's case: a run over a sample of two packages that wrote all three files.
C8_Witness ==
    /\ pc = "done" /\ Len(package_names) = 2
    /\ written = <<"summary.json", "all.png", "delta.png">>
    /\ BagCardinality(processed) = 6

\* C9 (as claimed): the universe fetch_last_package_list returns is sorted and
\* holds no name twice, so that no pair is processed twice in a run.
C9_UniverseSortedAndDistinct ==
    /\ pc = "shuffle" => IsSorted(package_names) /\ NoDuplicate(package_names)
    /\ \A pair \in BagToSet(processed) : CopiesIn(pair, processed) = 1

\* C10: at every point license_counters[a][t] is the number of the pairs
\* processed so far in archive a that were found and whose result contains t
\* (one for the token of a single-valued result, one for each member of a
\* multi-valued one), and nothing else is in the counters.
C10_CountersMatchTheResults ==
    pc # "rest" =>
        \A a \in SeqToSet(archive_names) :
            LET results == BagToSet(found[a])
                tokens == BagToSet(license_counters[a]) \cup UNION results
            IN  \A t \in tokens :
                    CopiesIn(t, license_counters[a])
                        = SumCopies({r \in results : t \in r}, found[a])

\* C10's case: two pairs of one archive counted, a multi-valued result among
\* them, one token in both results, the other archives' counters empty.
C10_Witness ==
    /\ pc = "loop"
    /\ CopiesIn(S("MIT"), license_counters["oldstable"]) = 2
    /\ CopiesIn(S("GPL-3"), license_counters["oldstable"]) = 1
    /\ license_counters["stable"] = <<>>
    /\ last.counted = {S("MIT")}

====
